---- MODULE Spec2Model ----
(***************************************************************************)
(* simple_update_checker: the update-check engine, the notification        *)
(* dispatcher, the scheduler loop of `run-timed` and the one-shot commands *)
(* that share the program store with it.                                   *)
(*                                                                         *)
(* Program names are the integers of Names; their order is the order of    *)
(* String::cmp on the names.  Version strings are the integers of          *)
(* Versions; only their equality is used, as in the code.  Utc::now() is   *)
(* the clock `now`, which advances when an operation starts.               *)
(***************************************************************************)
EXTENDS Integers, Sequences, FiniteSets, TLC

\* ------------------------------------------------------------- bounds
MaxTime == 3
MaxVersion == 2
MaxFaults == 1

Names == {1, 2}
Versions == 1..MaxVersion
Procs == {"sched", "cli"}

VARIABLES
    store,           \* programs table: name -> row
    published,       \* provider side: name -> latest published version
    check_history,   \* update_check_history table, in insertion order
    update_history,  \* update_history table, in insertion order
    channel,         \* requests made to the notification channel
    proc,            \* the scheduler task and the one-shot command process
    main,            \* run(): waiting for a signal, or exited
    now,             \* Utc::now()
    faults,          \* failures of the provider, the store and the channel so far
    last_check,      \* history: the check that completed last, while nothing else happened since
    delivered,       \* history: the programs named in a message the channel accepted,
                     \* since their stored latest_version last changed
    write_failed,    \* history: a write to the store has returned an error
    suppressed,      \* history: the programs a manual check has marked as notified to keep
                     \* them out of the messages, since their stored latest_version last changed
    outage           \* provider side: the programs whose lookup fails for as long as the
                     \* outage lasts

vars == <<store, published, check_history, update_history, channel, proc, main, now, faults,
          last_check, delivered, write_failed, suppressed, outage>>

\* ------------------------------------------------------------- values
None == <<>>
Some(x) == <<x>>

AbsentRow ==
    [present |-> FALSE,
     current_version |-> 0, current_version_last_updated |-> 0,
     latest_version |-> 0, latest_version_last_updated |-> 0,
     notification_sent |-> FALSE, notification_sent_on |-> None]

\* struct Program, as read from the programs table
Program(name, row) ==
    [name |-> name,
     current_version |-> row.current_version,
     current_version_last_updated |-> row.current_version_last_updated,
     latest_version |-> row.latest_version,
     latest_version_last_updated |-> row.latest_version_last_updated]

\* the program starts without a current version
ProgramInit_zero(name, version, t) ==
    [name |-> name,
     current_version |-> 0, current_version_last_updated |-> t,
     latest_version |-> version, latest_version_last_updated |-> t]

\* Program::init: current and latest version are the version just looked up
ProgramInit(name, version, t) ==
    [name |-> name,
     current_version |-> version, current_version_last_updated |-> t,
     latest_version |-> version, latest_version_last_updated |-> t]

RECURSIVE SeqOfSet(_)
\* the elements of a set of names as a sequence in name order (sort_by name)
SeqOfSet(S) ==
    IF S = {} THEN <<>>
    ELSE LET m == CHOOSE x \in S : \A y \in S : x <= y
         IN <<m>> \o SeqOfSet(S \ {m})

NamesOf(programs) == {programs[k].name : k \in 1..Len(programs)}

\* ------------------------------------------------------------- program store
\* the row is inserted as already notified
insert_program_sent(s, program) ==
    [s EXCEPT ![program.name] =
        [present |-> TRUE,
         current_version |-> program.current_version,
         current_version_last_updated |-> program.current_version_last_updated,
         latest_version |-> program.latest_version,
         latest_version_last_updated |-> program.latest_version_last_updated,
         notification_sent |-> TRUE, notification_sent_on |-> None]]

\* INSERT INTO programs: the notification columns take the table's defaults
insert_program(s, program) ==
    [s EXCEPT ![program.name] =
        [present |-> TRUE,
         current_version |-> program.current_version,
         current_version_last_updated |-> program.current_version_last_updated,
         latest_version |-> program.latest_version,
         latest_version_last_updated |-> program.latest_version_last_updated,
         notification_sent |-> FALSE, notification_sent_on |-> None]]

remove_program(s, name) == [s EXCEPT ![name] = AbsentRow]

get_program(s, name) ==
    IF s[name].present THEN Some(Program(name, s[name])) ELSE None

\* the rows in the opposite order: the caller's sort is missing
get_all_programs_unsorted(s) ==
    LET names == SeqOfSet({n \in Names : s[n].present})
    IN [k \in 1..Len(names) |->
          Program(names[Len(names) + 1 - k], s[names[Len(names) + 1 - k]])]

\* SELECT ... FROM programs, sorted by the caller with sort_by(name)
get_all_programs(s) ==
    LET names == SeqOfSet({n \in Names : s[n].present})
    IN [k \in 1..Len(names) |-> Program(names[k], s[names[k]])]

\* the UPDATE writes the timestamp and leaves the version column alone
update_latest_version_stale(s, name, version, t) ==
    IF s[name].present
    THEN [s EXCEPT ![name].latest_version_last_updated = t]
    ELSE s

\* the UPDATE sets the version in use along with the latest version
update_latest_version_both(s, name, version, t) ==
    IF s[name].present
    THEN [s EXCEPT ![name].latest_version = version,
                   ![name].latest_version_last_updated = t,
                   ![name].current_version = version]
    ELSE s

\* UPDATE programs SET ... WHERE name = ?: no row, no change, no error
update_latest_version(s, name, version, t) ==
    IF s[name].present
    THEN [s EXCEPT ![name].latest_version = version,
                   ![name].latest_version_last_updated = t]
    ELSE s

\* the UPDATE lacks its WHERE clause
update_current_version_all(s, name, version, t) ==
    [n \in Names |->
        IF s[n].present
        THEN [s[n] EXCEPT !.current_version = version, !.current_version_last_updated = t]
        ELSE s[n]]

update_current_version(s, name, version, t) ==
    IF s[name].present
    THEN [s EXCEPT ![name].current_version = version,
                   ![name].current_version_last_updated = t]
    ELSE s

\* the UPDATE of the flag lacks its WHERE clause
set_notification_sent_all(s, name, sent) ==
    [n \in Names |-> IF s[n].present THEN [s[n] EXCEPT !.notification_sent = sent] ELSE s[n]]

set_notification_sent(s, name, sent) ==
    IF s[name].present THEN [s EXCEPT ![name].notification_sent = sent] ELSE s

set_notification_sent_on(s, name, sent_on) ==
    IF s[name].present THEN [s EXCEPT ![name].notification_sent_on = sent_on] ELSE s

\* a read that makes up a record for a program that has no row
get_notification_info_default(s, name) ==
    Some([sent |-> s[name].notification_sent, sent_on |-> s[name].notification_sent_on])

get_notification_info(s, name) ==
    IF s[name].present
    THEN Some([sent |-> s[name].notification_sent, sent_on |-> s[name].notification_sent_on])
    ELSE None

\* ------------------------------------------------------------- update history
\* max_entries.unwrap_or(100)
DefaultMaxEntries == 100

RECURSIVE OrderByDate(_, _, _)
\* ORDER BY date: the rows of table h with the indices in `rows`, the newest first if
\* `desc` and the oldest first otherwise (rows of one date in insertion order)
OrderByDate(h, rows, desc) ==
    IF rows = {} THEN <<>>
    ELSE LET first == CHOOSE k \in rows : \A j \in rows :
                          \/ IF desc THEN h[k].date > h[j].date ELSE h[k].date < h[j].date
                          \/ h[k].date = h[j].date /\ k <= j
         IN <<h[first]>> \o OrderByDate(h, rows \ {first}, desc)

\* LIMIT ?
Limit(rows, n) == SubSeq(rows, 1, IF n < Len(rows) THEN n ELSE Len(rows))

\* the query with ORDER BY date ASC
get_all_updates_asc(h, max_entries) ==
    Limit(OrderByDate(h, DOMAIN h, FALSE),
          IF max_entries = None THEN DefaultMaxEntries ELSE max_entries[1])

\* SELECT ... FROM update_history ORDER BY date DESC LIMIT ?
get_all_updates(h, max_entries) ==
    Limit(OrderByDate(h, DOMAIN h, TRUE),
          IF max_entries = None THEN DefaultMaxEntries ELSE max_entries[1])

\* ------------------------------------------------------------- initial state
\* no check has completed, or the provider or a command has changed something since
NoCheck == [calm |-> FALSE, type |-> "none", check_args |-> None, found |-> {}, fresh |-> {}]

\* A process: its position, the locals of check_for_updates (programs, the loop index,
\* the latest_version fetched in each iteration, programs_with_available_updates), the
\* programs of the last message and the channel's response.  `after` is the check that
\* completed right before this one began and `clean` says that nothing but this check
\* has happened since it began (history, read by no action); `error_response` is the
\* channel's answer to the last error notification and `waited` says that the loop has
\* slept since the task was spawned (history as well).
IdleProc ==
    [pc |-> "idle", type |-> "manual", check_args |-> None,
     programs |-> <<>>, i |-> 1, fetched |-> <<>>, updates |-> <<>>, included |-> <<>>,
     outcome |-> "none", error |-> "none", response |-> "none", after |-> NoCheck,
     clean |-> FALSE, error_response |-> "none", waited |-> FALSE]

\* the provider or a command changed something: no check in progress is undisturbed
Disturbed(pr) == [p \in Procs |-> [pr[p] EXCEPT !.clean = FALSE]]

\* check_for_updates returns: the loop's locals are gone; `after` stays only for a
\* check that ran undisturbed
Returned(r, pc, outcome) ==
    [r EXCEPT !.pc = pc, !.outcome = outcome, !.fetched = <<>>,
              !.after = IF r.clean /\ outcome = "ok" THEN @ ELSE NoCheck,
              !.clean = FALSE]

\* the delivered programs whose row and recorded latest_version are still the same
Kept(s, after, d) ==
    {n \in d : after[n].present /\ s[n].present /\ after[n].latest_version = s[n].latest_version}

\* tokio::spawn: the task enters its loop at the top, at the call of check_for_updates
Spawned == [IdleProc EXCEPT !.pc = "start", !.type = "timed"]

Init ==
    /\ store = [n \in Names |-> insert_program([m \in Names |-> AbsentRow], ProgramInit(n, 1, 0))[n]]
    /\ published = [n \in Names |-> 1]
    /\ check_history = <<>>
    /\ update_history = <<>>
    /\ channel = <<>>
    /\ proc = [p \in Procs |-> IF p = "sched" THEN Spawned ELSE IdleProc]
    /\ main = "waiting"
    /\ now = 0
    /\ faults = 0
    /\ last_check = NoCheck
    /\ delivered = {}
    /\ write_failed = FALSE
    /\ suppressed = {}
    /\ outage = {}


\* ------------------------------------------------------------- external parties
\* Provider::check_for_latest_version: the published version, or an error
Lookups == {"ok", "error"}

\* the provider is down for this program: every lookup of it fails
Down(name) == name \in outage

\* the answers a lookup of this program can get now
check_for_latest_version(name) == IF Down(name) THEN {"error"} ELSE Lookups

\* notification::send_notification posts one request: the channel accepts it (2xx),
\* answers with an error status, or the request itself fails (no response)
Responses == {"accepted", "rejected", "error"}

\* `.send().await?` is an error only when no response arrived
send_notification(response) == IF response = "error" THEN "err" ELSE "ok"

Faulty(k) == IF k THEN 1 ELSE 0

\* ------------------------------------------------------------- store calls of one step
Call(op, name, arg, unwrap) == [op |-> op, name |-> name, arg |-> arg, unwrap |-> unwrap]

ApplyCall(s, c, t) ==
    CASE c.op = "set_notification_sent" -> set_notification_sent(s, c.name, c.arg)
      [] c.op = "set_notification_sent_on" -> set_notification_sent_on(s, c.name, c.arg)
      [] c.op = "update_latest_version" -> update_latest_version(s, c.name, c.arg, t)
      [] c.op = "update_current_version" -> update_current_version(s, c.name, c.arg, t)

RECURSIVE RunCalls(_, _, _, _)
\* the store after the calls made before call number `fail` (all of them when fail = 0)
RunCalls(s, calls, fail, t) ==
    IF calls = <<>> \/ fail = 1 THEN s
    ELSE RunCalls(ApplyCall(s, Head(calls), t), Tail(calls),
                  IF fail = 0 THEN 0 ELSE fail - 1, t)

\* a failed call returns Err through `?`, or panics the task through unwrap()
FailureOf(calls, fail) ==
    IF fail = 0 THEN "ok" ELSE IF calls[fail].unwrap THEN "panic" ELSE "err"

\* ------------------------------------------------------------- update-check engine
\* every manual check marks what it saw as notified
Suppresses_manual(type, check_args) == type = "manual"

\* the manual check marks what it saw as notified unless --allow-notification
Suppresses(type, check_args) ==
    /\ type = "manual"
    /\ check_args # None
    /\ ~check_args[1].allow_notification

SetsCurrent(check_args) ==
    /\ check_args # None
    /\ check_args[1].set_current_version

\* a program whose lookup fails is skipped and the loop goes on
ProviderFailure_skip(p, r) ==
    [r EXCEPT !.i = @ + 1, !.fetched = Append(@, 0), !.error = "provider"]

\* the failed lookup is logged and the loop goes on with the stored version
ProviderFailure_log(p, r) ==
    [r EXCEPT !.i = @ + 1, !.fetched = Append(@, r.programs[r.i].latest_version),
              !.error = "provider"]

\* `check_for_latest_version(..).await?`: the error of the lookup is returned at once
ProviderFailure(p, r) ==
    [Returned(r, IF p = "sched" THEN "failed" ELSE "idle", "err") EXCEPT !.error = "provider"]

\* the manual check leaves the flag to the scheduler
SuppressCalls_never(program, type, check_args) == <<>>

SuppressCalls(program, type, check_args) ==
    IF Suppresses(type, check_args)
    THEN <<Call("set_notification_sent", program.name, TRUE, FALSE)>>
    ELSE <<>>

\* --set-current-version also promotes an update that was found by an earlier check
EngineCalls_promote(program, latest_version, type, check_args) ==
    IF latest_version # program.latest_version
    THEN <<Call("set_notification_sent", program.name, FALSE, FALSE),
           Call("set_notification_sent_on", program.name, None, FALSE),
           Call("update_latest_version", program.name, latest_version, TRUE)>>
         \o (IF SetsCurrent(check_args)
             THEN <<Call("update_current_version", program.name, latest_version, TRUE)>>
             ELSE <<>>)
         \o SuppressCalls(program, type, check_args)
    ELSE IF latest_version # program.current_version
    THEN (IF SetsCurrent(check_args)
          THEN <<Call("update_current_version", program.name, latest_version, TRUE)>>
          ELSE <<>>)
         \o SuppressCalls(program, type, check_args)
    ELSE <<>>

\* the store calls check_for_updates makes for one program, in order
EngineCalls(program, latest_version, type, check_args) ==
    IF latest_version # program.latest_version
    THEN <<Call("set_notification_sent", program.name, FALSE, FALSE),
           Call("set_notification_sent_on", program.name, None, FALSE),
           Call("update_latest_version", program.name, latest_version, TRUE)>>
         \o (IF SetsCurrent(check_args)
             THEN <<Call("update_current_version", program.name, latest_version, TRUE)>>
             ELSE <<>>)
         \o SuppressCalls(program, type, check_args)
    ELSE IF latest_version # program.current_version
    THEN SuppressCalls(program, type, check_args)
    ELSE <<>>

\* every program that was looked up is reported
EnginePush_all(program, latest_version) ==
    <<[program EXCEPT !.latest_version = latest_version]>>

\* only a newly found version counts as an update
EnginePush_new(program, latest_version) ==
    IF latest_version # program.latest_version
    THEN <<[program EXCEPT !.latest_version = latest_version]>>
    ELSE <<>>

\* what the loop body pushes to programs_with_available_updates
EnginePush(program, latest_version) ==
    IF latest_version # program.latest_version
    THEN <<[program EXCEPT !.latest_version = latest_version]>>
    ELSE IF latest_version # program.current_version
    THEN <<program>>
    ELSE <<>>

\* the entry names only the first program of the result
from_now_first(type, programs_with_updates, t) ==
    [date |-> t, type |-> type,
     updates_available |-> Len(programs_with_updates),
     programs |-> IF programs_with_updates = <<>> THEN <<>>
                  ELSE <<Head(programs_with_updates).name>>]

\* UpdateCheckHistoryEntry::from_now
from_now(type, programs_with_updates, t) ==
    [date |-> t, type |-> type,
     updates_available |-> Len(programs_with_updates),
     programs |-> SeqOfSet(NamesOf(programs_with_updates))]

\* where a process goes when its pass ends with this outcome
AfterFailure(p, outcome) ==
    IF p = "sched"
    THEN IF outcome = "panic" THEN "dead" ELSE "failed"
    ELSE "idle"

Running(p) == proc[p].pc \in {"loop", "notify", "failed"}

\* the scheduler task runs until the runtime is dropped at exit
Alive(p) == p = "sched" => main # "exited"

\* db.get_all_programs().unwrap() and the sort at the top of check_for_updates
EngineBegin(p, type, check_args, fail) ==
    /\ faults + Faulty(fail # "ok") <= MaxFaults
    /\ now < MaxTime
    /\ now' = now + 1
    /\ faults' = faults + Faulty(fail # "ok")
    /\ proc' = [proc EXCEPT ![p] =
            IF fail = "ok"
            THEN [IdleProc EXCEPT !.pc = "loop", !.type = type, !.check_args = check_args,
                                  !.programs = get_all_programs(store),
                                  !.after = last_check, !.clean = TRUE,
                                  !.waited = proc[p].waited]
            ELSE [IdleProc EXCEPT !.pc = AfterFailure(p, fail), !.type = type,
                                  !.check_args = check_args, !.outcome = fail,
                                  !.waited = proc[p].waited]]
    /\ last_check' = IF fail = "ok" THEN last_check ELSE NoCheck
    /\ UNCHANGED outage
    /\ UNCHANGED <<store, published, check_history, update_history, channel, main, delivered,
                   write_failed, suppressed>>

\* run_timed::check_for_updates up to the loop of update_check::check_for_updates:
\* connect and the first read return Err, the second read is unwrapped
SchedBegin ==
    /\ proc["sched"].pc = "start"
    /\ Alive("sched")
    /\ \E fail \in {"ok", "err", "panic"} : EngineBegin("sched", "timed", None, fail)

\* actions::check: connect and both reads are unwrapped
CliCheck ==
    /\ proc["cli"].pc = "idle"
    /\ \E set_current_version \in BOOLEAN, allow_notification \in BOOLEAN,
          fail \in {"ok", "panic"} :
            EngineBegin("cli", "manual",
                        Some([set_current_version |-> set_current_version,
                              allow_notification |-> allow_notification]), fail)

\* the history entry is written from inside the loop
LoopDone_early(r) == TRUE

\* `for mut program in programs` has consumed every program
LoopDone(r) == r.i > Len(r.programs)

\* one iteration of `for mut program in programs`
\* the program that this iteration of a manual check marks as notified: the loop is at
\* an update and every store call of the iteration goes through
Suppressing(p) ==
    IF /\ Suppresses(proc[p].type, proc[p].check_args)
       /\ proc'[p].pc = "loop"
       /\ Len(proc'[p].updates) > Len(proc[p].updates)
    THEN {proc[p].programs[proc[p].i].name}
    ELSE {}

EngineStep(p) ==
    /\ proc[p].pc = "loop"
    /\ Alive(p)
    /\ ~LoopDone(proc[p])
    /\ LET program == proc[p].programs[proc[p].i]
           type == proc[p].type
           check_args == proc[p].check_args
       IN \E lookup \in check_for_latest_version(program.name) :
            IF lookup = "error"
            THEN /\ faults + Faulty(~Down(program.name)) <= MaxFaults
                 /\ faults' = faults + Faulty(~Down(program.name))
                 /\ proc' = [proc EXCEPT ![p] = ProviderFailure(p, @)]
                 /\ last_check' = NoCheck
                 /\ UNCHANGED <<store, write_failed>>
            ELSE LET latest_version == published[program.name]
                     calls == EngineCalls(program, latest_version, type, check_args)
                 IN \E fail \in 0..Len(calls) :
                      /\ faults + Faulty(fail # 0) <= MaxFaults
                      /\ faults' = faults + Faulty(fail # 0)
                      /\ store' = RunCalls(store, calls, fail, now)
                      /\ write_failed' = (write_failed \/ fail # 0)
                      /\ proc' = [proc EXCEPT ![p] =
                            IF fail = 0
                            THEN [@ EXCEPT !.i = @ + 1,
                                           !.fetched = Append(@, latest_version),
                                           !.updates = @ \o EnginePush(program, latest_version)]
                            ELSE Returned(@, AfterFailure(p, FailureOf(calls, fail)),
                                          FailureOf(calls, fail))]
                      /\ last_check' = IF fail = 0 THEN last_check ELSE NoCheck
    /\ delivered' = Kept(store, store', delivered)
    /\ suppressed' = Kept(store, store', suppressed) \cup Suppressing(p)
    /\ UNCHANGED outage
    /\ UNCHANGED <<published, check_history, update_history, channel, main, now>>

\* a loop that sleeps only after a pass that found updates
AfterCheck_restart(p, updates) ==
    IF p = "sched"
    THEN IF updates # <<>> THEN "notify" ELSE "start"
    ELSE "idle"

\* where a completed check goes: the scheduler notifies when there are updates
AfterCheck(p, updates) ==
    IF p = "sched"
    THEN IF updates # <<>> THEN "notify" ELSE "sleep"
    ELSE "idle"

\* after the loop: db.insert_update_check_history(from_now(..)).await? and the return
EngineFinish(p) ==
    /\ proc[p].pc = "loop"
    /\ Alive(p)
    /\ LoopDone(proc[p])
    /\ \E fail \in BOOLEAN :
         /\ faults + Faulty(fail) <= MaxFaults
         /\ faults' = faults + Faulty(fail)
         /\ write_failed' = (write_failed \/ fail)
         /\ IF fail
            THEN /\ proc' = [proc EXCEPT ![p] = Returned(@, AfterFailure(p, "err"), "err")]
                 /\ last_check' = NoCheck
                 /\ UNCHANGED check_history
            ELSE /\ check_history' =
                        Append(check_history, from_now(proc[p].type, proc[p].updates, now))
                 /\ proc' = [proc EXCEPT ![p] = Returned(@, AfterCheck(p, proc[p].updates), "ok")]
                 /\ last_check' = IF proc[p].clean
                                  THEN [calm |-> TRUE, type |-> proc[p].type,
                                        check_args |-> proc[p].check_args,
                                        found |-> NamesOf(proc[p].updates),
                                        fresh |-> {proc[p].programs[k].name : k \in
                                            {j \in 1..Len(proc[p].fetched) :
                                                proc[p].fetched[j]
                                                  # proc[p].programs[j].latest_version}}]
                                  ELSE NoCheck
    /\ UNCHANGED outage
    /\ UNCHANGED <<store, published, update_history, channel, main, now, delivered,
                   suppressed>>


\* ------------------------------------------------------------- notification dispatcher
\* the stored flag is not looked at: every program of the result is sent
NotSent_all(s, programs) == programs

\* the message is cut to its first line: one request for each program
NotSent_first(s, programs) ==
    LET eligible == SelectSeq(programs, LAMBDA program :
                        /\ get_notification_info(s, program.name) # None
                        /\ ~get_notification_info(s, program.name)[1].sent)
    IN IF eligible = <<>> THEN <<>> ELSE <<Head(eligible)>>

RECURSIVE NotSent(_, _)
\* programs_with_notifications_to_sent: the programs whose stored flag is not set
NotSent(s, programs) ==
    IF programs = <<>> THEN <<>>
    ELSE LET info == get_notification_info(s, Head(programs).name)
         IN (IF info # None /\ ~info[1].sent THEN <<Head(programs)>> ELSE <<>>)
            \o NotSent(s, Tail(programs))

\* one line of the message per program: "name: current -> latest"
Message(programs) ==
    [k \in 1..Len(programs) |->
        [name |-> programs[k].name,
         current_version |-> programs[k].current_version,
         latest_version |-> programs[k].latest_version]]

\* the Ok(()) arm sets the flag and leaves the time of the notification out
MarkCalls_flag(programs, t) ==
    [k \in 1..Len(programs) |-> Call("set_notification_sent", programs[k].name, TRUE, FALSE)]

RECURSIVE MarkCalls(_, _)
\* the Ok(()) arm: both flags of every program of the message, in order
MarkCalls(programs, t) ==
    IF programs = <<>> THEN <<>>
    ELSE <<Call("set_notification_sent", Head(programs).name, TRUE, FALSE),
           Call("set_notification_sent_on", Head(programs).name, Some(t), FALSE)>>
         \o MarkCalls(Tail(programs), t)

\* run_timed::send_update_notification, then the end of the pass
Notify ==
    /\ proc["sched"].pc = "notify"
    /\ Alive("sched")
    /\ LET programs == proc["sched"].updates
           missing == \E k \in 1..Len(programs) : get_notification_info(store, programs[k].name) = None
           to_send == NotSent(store, programs)
       IN \/ \* a read of the notification info fails
             /\ faults < MaxFaults
             /\ faults' = faults + 1
             /\ proc' = [proc EXCEPT !["sched"].pc = "failed", !["sched"].outcome = "err"]
             /\ UNCHANGED <<store, channel, delivered, write_failed, suppressed>>
          \/ \* "Unable to find program .. in database"
             /\ missing
             /\ proc' = [proc EXCEPT !["sched"].pc = "failed", !["sched"].outcome = "err"]
             /\ UNCHANGED <<store, channel, faults, delivered, write_failed, suppressed>>
          \/ \* nothing left to notify about: no request
             /\ ~missing
             /\ to_send = <<>>
             /\ proc' = [proc EXCEPT !["sched"].pc = "sleep"]
             /\ UNCHANGED <<store, channel, faults, delivered, write_failed, suppressed>>
          \/ /\ ~missing
             /\ to_send # <<>>
             /\ \E response \in Responses :
                  LET calls == IF send_notification(response) = "ok"
                               THEN MarkCalls(to_send, now) ELSE <<>>
                  IN \E fail \in 0..Len(calls) :
                       LET failed == response # "accepted" \/ fail # 0
                           outcome == IF send_notification(response) = "ok"
                                      THEN FailureOf(calls, fail) ELSE "err"
                       IN /\ faults + Faulty(failed) <= MaxFaults
                          /\ faults' = faults + Faulty(failed)
                          /\ channel' = Append(channel,
                                 [kind |-> "update", message |-> Message(to_send)])
                          /\ store' = RunCalls(store, calls, fail, now)
                          /\ write_failed' = (write_failed \/ fail # 0)
                          /\ delivered' = IF response = "accepted"
                                          THEN delivered \cup NamesOf(to_send)
                                          ELSE delivered
                          /\ suppressed' = suppressed
                          /\ proc' = [proc EXCEPT
                                 !["sched"].included = to_send,
                                 !["sched"].outcome = outcome,
                                 !["sched"].response = response,
                                 !["sched"].pc = IF outcome = "ok" THEN "sleep" ELSE "failed"]
    /\ UNCHANGED outage
    /\ UNCHANGED <<published, check_history, update_history, main, now, last_check>>

\* ------------------------------------------------------------- scheduler loop
\* the Err arm of the loop: log, notification::send_error_notifictaion, log its failure
\* a loop that gives up when the error notification cannot be delivered
AfterErrorNotification_escalate(response) ==
    IF response = "accepted" THEN "sleep" ELSE "dead"

\* `if let Err(e)` only logs: whatever the channel answers, the loop goes on to sleep
AfterErrorNotification(response) == "sleep"

NotifyError ==
    /\ proc["sched"].pc = "failed"
    /\ Alive("sched")
    /\ channel' = Append(channel, [kind |-> "error", message |-> <<>>])
    /\ \E response \in Responses :
         proc' = [proc EXCEPT !["sched"].pc = AfterErrorNotification(response),
                              !["sched"].error_response = response]
    /\ UNCHANGED outage
    /\ UNCHANGED <<store, published, check_history, update_history, main, now, faults,
                   last_check, delivered, write_failed, suppressed>>

\* a timer that ticks on its own: it fires whether or not the pass has ended
Wake_early ==
    /\ proc["sched"].pc \in {"sleep", "loop", "notify", "failed"}
    /\ Alive("sched")
    /\ proc' = [proc EXCEPT !["sched"].pc = "start", !["sched"].waited = TRUE]
    /\ UNCHANGED outage
    /\ UNCHANGED <<store, published, check_history, update_history, channel, main, now, faults,
                   last_check, delivered, write_failed, suppressed>>

\* tokio::time::sleep(check_interval) is over
Wake ==
    /\ proc["sched"].pc = "sleep"
    /\ Alive("sched")
    /\ proc' = [proc EXCEPT !["sched"].pc = "start", !["sched"].waited = TRUE]
    /\ UNCHANGED outage
    /\ UNCHANGED <<store, published, check_history, update_history, channel, main, now, faults,
                   last_check, delivered, write_failed, suppressed>>

\* SIGTERM or SIGINT arrives: the select! in run() resolves, run() and main() return,
\* and the runtime is dropped with the spawned task wherever it is
Shutdown ==
    /\ main = "waiting"
    /\ main' = "exited"
    /\ UNCHANGED outage
    /\ UNCHANGED <<store, published, check_history, update_history, channel, proc, now, faults,
                   last_check, delivered, write_failed, suppressed>>

\* ------------------------------------------------------------- one-shot commands
\* actions::update
\* the update action stops only at a name that is not in the store
NothingToUpdate_absent(found) == found = None

\* the two early exits of the update action: the name is not in the store, or its
\* current_version already equals latest_version
NothingToUpdate(found) ==
    found = None \/ found[1].current_version = found[1].latest_version

\* what the update action does to the store and the update history for this name
UpdateOf(name) ==
    LET found == get_program(store, name)
    IN IF NothingToUpdate(found)
       THEN \* println!, process::exit(0)
            /\ proc' = Disturbed([proc EXCEPT !["cli"] = [IdleProc EXCEPT
                  !.outcome = IF found = None THEN "not_found" ELSE "up_to_date"]])
            /\ UNCHANGED <<store, update_history, faults, write_failed>>
       ELSE LET program == found[1]
            IN \E fail \in 0..2 :
                 /\ faults + Faulty(fail # 0) <= MaxFaults
                 /\ faults' = faults + Faulty(fail # 0)
                 /\ write_failed' = (write_failed \/ fail # 0)
                 /\ store' = IF fail = 1 THEN store
                             ELSE update_current_version(store, name, program.latest_version, now')
                 /\ update_history' =
                       IF fail = 0
                       THEN Append(update_history,
                               [date |-> now', name |-> program.name,
                                old_version |-> program.current_version,
                                updated_to |-> program.latest_version])
                       ELSE update_history
                 /\ proc' = Disturbed([proc EXCEPT !["cli"] =
                       [IdleProc EXCEPT !.outcome = IF fail = 0 THEN "ok" ELSE "panic"]])

Update ==
    /\ proc["cli"].pc = "idle"
    /\ now < MaxTime
    /\ now' = now + 1
    /\ \E name \in Names : UpdateOf(name)
    /\ last_check' = NoCheck
    /\ delivered' = Kept(store, store', delivered)
    /\ suppressed' = Kept(store, store', suppressed)
    /\ UNCHANGED outage
    /\ UNCHANGED <<published, check_history, channel, main>>

\* add_program::add_program_github
AddProgram ==
    /\ proc["cli"].pc = "idle"
    /\ now < MaxTime
    /\ now' = now + 1
    /\ \E name \in Names, lookup \in Lookups :
         IF get_program(store, name) # None
         THEN /\ lookup = "ok"
              /\ proc' = Disturbed([proc EXCEPT !["cli"] = [IdleProc EXCEPT !.outcome = "exit"]])
              /\ UNCHANGED <<store, faults>>
         ELSE IF lookup = "error"
         THEN /\ faults + Faulty(~Down(name)) <= MaxFaults
              /\ faults' = faults + Faulty(~Down(name))
              /\ proc' = Disturbed([proc EXCEPT !["cli"] =
                    [IdleProc EXCEPT !.outcome = "panic", !.error = "provider"]])
              /\ UNCHANGED store
         ELSE /\ lookup \in check_for_latest_version(name)
              /\ store' = insert_program(store, ProgramInit(name, published[name], now'))
              /\ proc' = Disturbed([proc EXCEPT !["cli"] = [IdleProc EXCEPT !.outcome = "ok"]])
              /\ UNCHANGED faults
    /\ last_check' = NoCheck
    /\ delivered' = Kept(store, store', delivered)
    /\ suppressed' = Kept(store, store', suppressed)
    /\ UNCHANGED outage
    /\ UNCHANGED <<published, check_history, update_history, channel, main, write_failed>>

\* actions::remove_program
RemoveProgram ==
    /\ proc["cli"].pc = "idle"
    /\ now < MaxTime
    /\ now' = now + 1
    /\ \E name \in Names :
         IF get_program(store, name) = None
         THEN /\ proc' = Disturbed([proc EXCEPT !["cli"] = [IdleProc EXCEPT !.outcome = "exit"]])
              /\ UNCHANGED store
         ELSE /\ store' = remove_program(store, name)
              /\ proc' = Disturbed([proc EXCEPT !["cli"] = [IdleProc EXCEPT !.outcome = "ok"]])
    /\ last_check' = NoCheck
    /\ delivered' = Kept(store, store', delivered)
    /\ suppressed' = Kept(store, store', suppressed)
    /\ UNCHANGED outage
    /\ UNCHANGED <<published, check_history, update_history, channel, main, faults,
                   write_failed>>

\* ------------------------------------------------------------- provider
\* a release is published (or withdrawn): the provider's answer changes
Release ==
    /\ \E name \in Names, version \in Versions :
         /\ version # published[name]
         /\ published' = [published EXCEPT ![name] = version]
    /\ proc' = Disturbed(proc)
    /\ last_check' = NoCheck
    /\ UNCHANGED outage
    /\ UNCHANGED <<store, check_history, update_history, channel, main, now, faults, delivered,
                   write_failed, suppressed>>

\* ------------------------------------------------------------- specification
\* the scheduler is between passes, or its task has panicked; the model follows the
\* store for as long as the run-timed process lives
SchedAtRest == main = "waiting" /\ proc["sched"].pc \in {"sleep", "dead"}
CliAtRest == proc["cli"].pc = "idle"

\* One operation works on the store at a time: a command is run while the scheduler
\* sleeps, and the scheduler wakes up when no command is running.
Next ==
    \/ CliAtRest /\ SchedBegin
    \/ EngineStep("sched")
    \/ EngineFinish("sched")
    \/ Notify
    \/ NotifyError
    \/ CliAtRest /\ Wake
    \/ SchedAtRest /\ CliCheck
    \/ EngineStep("cli")
    \/ EngineFinish("cli")
    \/ SchedAtRest /\ Update
    \/ SchedAtRest /\ AddProgram
    \/ SchedAtRest /\ RemoveProgram
    \/ Release

Spec == Init /\ [][Next]_vars

\* the same, with the shutdown signal
NextShutdown == Next \/ Shutdown

SpecShutdown == Init /\ [][NextShutdown]_vars

\* The provider goes down for one program, between two passes, and stays down: from
\* then on Provider::check_for_latest_version returns Err for it on every pass.
Outage ==
    /\ outage = {}
    /\ ~Running("sched") /\ proc["cli"].pc = "idle"
    /\ \E name \in Names : outage' = {name}
    /\ UNCHANGED <<store, published, check_history, update_history, channel, proc, main, now,
                   faults, last_check, delivered, write_failed, suppressed>>

NextOutage == Next \/ Outage

SpecOutage == Init /\ [][NextOutage]_vars

\* The check command is a process of its own on the same database file: it may begin
\* while a Timed pass is running, and a Timed pass may begin while it is running.
\* The two passes interleave iteration by iteration; no other command is run, and the
\* provider, the store and the channel do not fail.
NextInterleaved ==
    \/ SchedBegin /\ faults' = 0
    \/ EngineStep("sched") /\ faults' = 0
    \/ EngineFinish("sched") /\ faults' = 0
    \/ Notify /\ faults' = 0
    \/ Wake
    \/ main = "waiting" /\ CliCheck /\ faults' = 0
    \/ EngineStep("cli") /\ faults' = 0
    \/ EngineFinish("cli") /\ faults' = 0
    \/ Release

SpecInterleaved == Init /\ [][NextInterleaved]_vars

\* a step of the task that runs the scheduler loop
SchedStep ==
    \/ CliAtRest /\ SchedBegin
    \/ EngineStep("sched")
    \/ EngineFinish("sched")
    \/ Notify
    \/ NotifyError
    \/ CliAtRest /\ Wake

\* a step of a check command that has begun
CliStep == EngineStep("cli") \/ EngineFinish("cli")

\* The runtime polls the spawned task whenever it can go on, every call it awaits
\* returns and its sleep ends after check_interval seconds; a command process that has
\* begun runs to its end.  No shutdown signal arrives.
SpecFair == Init /\ [][Next]_vars /\ WF_vars(SchedStep) /\ WF_vars(CliStep)

\* run-timed on its own: no command is run against the store
NextSched ==
    \/ SchedBegin
    \/ EngineStep("sched")
    \/ EngineFinish("sched")
    \/ Notify
    \/ NotifyError
    \/ Wake
    \/ Release

\* The runtime polls the spawned task whenever it can go on and its sleep ends after
\* check_interval seconds; no shutdown signal arrives.
SpecSchedFair == Init /\ [][NextSched]_vars /\ WF_vars(SchedStep)

\* the scheduler has its result and has not yet called send_update_notification
Racing == main = "waiting" /\ proc["sched"].pc = "notify"

\* the same as Next, and a command of another process may also run between the check
\* of a Timed pass and its notification
NextRace ==
    \/ Next
    \/ Racing /\ RemoveProgram
    \/ Racing /\ Update
    \/ Racing /\ AddProgram

SpecRace == Init /\ [][NextRace]_vars


\* ------------------------------------------------------------- properties
\* check_for_updates of process p returns Ok in this step
Completes(p) ==
    /\ proc[p].pc = "loop"
    /\ proc'[p].pc # "loop"
    /\ proc'[p].outcome = "ok"

\* check_for_updates of process p returns Err or panics in this step
Aborts(p) ==
    /\ proc[p].pc = "loop"
    /\ proc'[p].pc # "loop"
    /\ proc'[p].outcome # "ok"

\* send_update_notification runs in this step
Notifies == proc["sched"].pc = "notify" /\ proc'["sched"].pc # "notify"

\* the programs whose recorded latest version is not the one in use
Pending(s) == {n \in Names : s[n].present /\ s[n].latest_version # s[n].current_version}

AllowsNotification(type, check_args) ==
    \/ type = "timed"
    \/ type = "manual" /\ check_args # None /\ check_args[1].allow_notification

\* C1: when a check returns, every program whose fetched version differed from the
\* latest_version it was read with has the fetched version stored as latest_version
\* and is in the result; after a Timed check, or a Manual one with allow_notification,
\* its notification_sent is false and its notification_sent_on is None.
C1_NewVersionRecorded ==
    [][\A p \in Procs : Completes(p) =>
          \A k \in 1..Len(proc[p].programs) :
             LET program == proc[p].programs[k]
                 row == store'[program.name]
             IN proc[p].fetched[k] # program.latest_version =>
                  /\ row.latest_version = proc[p].fetched[k]
                  /\ program.name \in NamesOf(proc'[p].updates)
                  /\ AllowsNotification(proc[p].type, proc[p].check_args) =>
                       /\ ~row.notification_sent
                       /\ row.notification_sent_on = None]_vars

\* a Timed check has returned a program with a version newer than the one it read
C1_Witness ==
    /\ proc["sched"].pc = "notify"
    /\ \E k \in 1..Len(proc["sched"].programs), j \in 1..Len(proc["sched"].updates) :
         /\ proc["sched"].updates[j].name = proc["sched"].programs[k].name
         /\ proc["sched"].updates[j].latest_version # proc["sched"].programs[k].latest_version
         /\ store[proc["sched"].programs[k].name].latest_version
               = proc["sched"].updates[j].latest_version

\* C2: when a Manual check without allow_notification returns, every program of its
\* result has notification_sent = true; and the Timed pass that follows it, with no
\* release and no command in between, sends none of those programs in a message.
C2_ManualSuppression ==
    [][/\ \A p \in Procs :
            Completes(p) /\ Suppresses(proc[p].type, proc[p].check_args) =>
               \A j \in 1..Len(proc'[p].updates) :
                  store'[proc'[p].updates[j].name].notification_sent
       /\ (/\ Notifies
           /\ proc["sched"].after.calm
           /\ Suppresses(proc["sched"].after.type, proc["sched"].after.check_args)) =>
              /\ NamesOf(proc'["sched"].included) \cap proc["sched"].after.found = {}
              /\ \A m \in (Len(channel) + 1)..Len(channel') :
                    channel'[m].kind = "update" =>
                      NamesOf(channel'[m].message) \cap proc["sched"].after.found = {}]_vars

\* the Timed pass after a suppressing Manual check has returned a program that the
\* Manual check had found, and has run its notification step
C2_Witness ==
    /\ proc["sched"].pc = "sleep"
    /\ proc["sched"].after.calm
    /\ Suppresses(proc["sched"].after.type, proc["sched"].after.check_args)
    /\ NamesOf(proc["sched"].updates) \cap proc["sched"].after.found # {}
    /\ \E n \in proc["sched"].after.found : store[n].notification_sent

\* process p is in a check that began right after a check of the same mode and options
\* had returned, with no release and no command since that one began
SecondCall(p) ==
    /\ proc[p].pc = "loop"
    /\ proc[p].clean
    /\ proc[p].after.calm
    /\ proc[p].after.type = proc[p].type
    /\ proc[p].after.check_args = proc[p].check_args

\* C3 as stated: the second of two checks in a row returns nothing and alters no row.
C3_SecondCallEmpty ==
    [][\A p \in Procs : SecondCall(p) =>
          /\ store' = store
          /\ Completes(p) => proc'[p].updates = <<>>]_vars

\* C3, amended: the second of two checks in a row (same mode and options, no release
\* in between) alters no row, and returns exactly the programs whose stored
\* latest_version differs from their current_version.
C3_SecondCallPending ==
    [][\A p \in Procs : SecondCall(p) =>
          /\ store' = store
          /\ Completes(p) => NamesOf(proc'[p].updates) = Pending(store)]_vars

\* a second check in a row has returned a program
C3_Witness ==
    /\ proc["sched"].pc = "notify"
    /\ proc["sched"].after.calm
    /\ proc["sched"].after.type = "timed"
    /\ proc["sched"].updates # <<>>


\* the request of this step's send_update_notification, if it made one
Requested == Len(channel') = Len(channel) + 1 /\ channel'[Len(channel')].kind = "update"

\* C4 as stated: a dispatch that failed (the channel did not accept the message) leaves
\* every notification flag as it was, so the same programs are eligible again.
C4_FailedDispatchKeepsFlags ==
    [][(Notifies /\ Requested /\ proc'["sched"].response # "accepted") =>
          /\ store' = store
          /\ NotSent(store', proc["sched"].updates) = NotSent(store, proc["sched"].updates)]_vars

\* C5: send_update_notification sends no program whose stored notification_sent is
\* true, and leaves the row of such a program as it is, whatever the channel answers.
C5_SentProgramsLeftAlone ==
    [][Notifies =>
          \A k \in 1..Len(proc["sched"].updates) :
             LET name == proc["sched"].updates[k].name
             IN (store[name].present /\ store[name].notification_sent) =>
                  /\ store'[name] = store[name]
                  /\ name \notin NamesOf(proc'["sched"].included)
                  /\ Requested => name \notin NamesOf(channel'[Len(channel')].message)]_vars

\* a message has gone out for one program of the result while another one of the
\* result was already marked as notified
C5_Witness ==
    /\ proc["sched"].pc = "sleep"
    /\ proc["sched"].response # "none"
    /\ proc["sched"].included # <<>>
    /\ \E k \in 1..Len(proc["sched"].updates) :
         /\ proc["sched"].updates[k].name \notin NamesOf(proc["sched"].included)
         /\ store[proc["sched"].updates[k].name].notification_sent

\* C6 as stated: the dispatcher sets flags only after the channel accepted the message;
\* then (the store permitting) every program of the message is marked with the
\* dispatch time; a dispatch the channel did not accept sets no flag.
C6_FlagsOnlyOnAcceptedDispatch ==
    [][Notifies =>
          IF Requested /\ proc'["sched"].response = "accepted"
          THEN proc'["sched"].outcome = "ok" =>
                 \A k \in 1..Len(proc'["sched"].included) :
                    LET row == store'[proc'["sched"].included[k].name]
                    IN row.notification_sent /\ row.notification_sent_on = Some(now)
          ELSE store' = store]_vars

\* C7: the check history grows only by the entry a check appends when it returns Ok,
\* after its loop has consumed every program; a check that returns Ok appends exactly
\* one entry, a check that aborts appends none, and no entry is changed or removed.
C7_HistoryAppendOnly ==
    [][/\ \/ check_history' = check_history
          \/ \E p \in Procs :
                /\ Completes(p)
                /\ proc[p].i = Len(proc[p].programs) + 1
                /\ Len(proc[p].fetched) = Len(proc[p].programs)
                /\ Len(check_history') = Len(check_history) + 1
                /\ SubSeq(check_history', 1, Len(check_history)) = check_history
                /\ check_history'[Len(check_history')].type = proc[p].type
       /\ \A p \in Procs :
             /\ Completes(p) => Len(check_history') = Len(check_history) + 1
             /\ Aborts(p) => check_history' = check_history]_vars

\* two checks have returned, one of them without any update
C7_Witness ==
    /\ Len(check_history) >= 2
    /\ \E k \in 1..Len(check_history) : check_history[k].updates_available = 0
    /\ \E k \in 1..Len(check_history) : check_history[k].updates_available > 0

\* C8: an update that goes through is applied to a program whose current_version
\* differed from its latest_version: current_version becomes the latest_version, nothing
\* else changes in the store, and one entry with the old current_version and the
\* latest_version is appended to the update history; a command that changes the
\* current_version of a program and succeeds is such an update.
C8_UpdateApplies ==
    [][/\ update_history' # update_history =>
             \E name \in Names :
                /\ store[name].present
                /\ store[name].current_version # store[name].latest_version
                /\ store' = [store EXCEPT
                        ![name].current_version = store[name].latest_version,
                        ![name].current_version_last_updated = now']
                /\ update_history' = Append(update_history,
                        [date |-> now', name |-> name,
                         old_version |-> store[name].current_version,
                         updated_to |-> store[name].latest_version])
       /\ (/\ proc["cli"].pc = "idle"
           /\ proc'["cli"].pc = "idle"
           /\ proc'["cli"].outcome = "ok"
           /\ \E name \in Names :
                 /\ store[name].present
                 /\ store'[name].present
                 /\ store'[name].current_version # store[name].current_version) =>
              Len(update_history') = Len(update_history) + 1]_vars

\* an update has been applied while another program was in the store, with an update
\* of its own pending
C8_Witness ==
    /\ update_history # <<>>
    /\ \E name \in Names :
         /\ update_history[Len(update_history)].name = name
         /\ store[name].current_version = update_history[Len(update_history)].updated_to
         /\ \E other \in Names \ {name} : other \in Pending(store)

\* C9 as stated: no error of a pass ends the scheduler loop.
C9_LoopSurvivesErrors == proc["sched"].pc # "dead"

\* C10 as stated: the process exits only when no pass is in flight.
C10_NoPassAbortedByShutdown == main = "exited" => ~Running("sched")


\* C11: the passes of the scheduler loop do not overlap: the timer fires only while the
\* loop sleeps, the loop sleeps only once its pass has completed or aborted, and the
\* locals of a pass are replaced only when the next pass begins after that sleep.
C11_PassesDoNotOverlap ==
    [][LET r == proc["sched"]
           q == proc'["sched"]
       IN /\ (q.pc = "start" /\ r.pc # "start") => r.pc = "sleep"
          /\ (q.pc = "sleep" /\ r.pc # "sleep") =>
                \/ r.pc = "loop" /\ LoopDone(r) /\ r.updates = <<>>
                                 /\ Len(check_history') = Len(check_history) + 1
                \/ r.pc = "notify"
                \/ r.pc = "failed" /\ Len(channel') = Len(channel) + 1
          /\ (Running("sched") /\ q.pc = "start") => FALSE
          /\ (q.programs # r.programs \/ q.i < r.i) => r.pc = "start"]_vars

\* a second pass is under way after the first one completed and the loop slept
C11_Witness ==
    /\ proc["sched"].pc = "loop"
    /\ proc["sched"].i > 1
    /\ \E k \in 1..Len(check_history) : check_history[k].type = "timed"


\* the provider fails for the program process p is at, in this step
ProviderFails(p) ==
    /\ proc[p].pc = "loop"
    /\ proc[p].error = "none"
    /\ proc'[p].error = "provider"

\* C12: when the provider fails for a program, the check returns an error at that
\* program: no row changes in that step (neither the program's nor a later one's), no
\* later program is fetched, no history entry is written by the step, and what is left
\* of the scheduler's pass (the error notification) writes neither rows nor history.
C12_ProviderFailureAborts ==
    [][/\ \A p \in Procs : ProviderFails(p) =>
             /\ Aborts(p)
             /\ proc'[p].outcome = "err"
             /\ proc'[p].i = proc[p].i
             /\ Len(proc[p].fetched) = proc[p].i - 1
             /\ store' = store
             /\ check_history' = check_history
       /\ (proc["sched"].pc = "failed" /\ proc["sched"].error = "provider") =>
             /\ store' = store
             /\ check_history' = check_history
             /\ proc'["sched"].pc \in {"failed", "sleep"}]_vars

\* the provider failed for the second program after a new version of the first one was
\* recorded
C12_Witness ==
    /\ proc["sched"].error = "provider"
    /\ proc["sched"].pc = "sleep"
    /\ proc["sched"].i = 2
    /\ store[proc["sched"].programs[1].name].latest_version
         # proc["sched"].programs[1].latest_version
    /\ \A k \in 1..Len(check_history) : check_history[k].date # now


\* process p runs one iteration of the loop in this step, to its end
Iterates(p) ==
    /\ proc[p].pc = "loop"
    /\ ~LoopDone(proc[p])
    /\ proc'[p].pc = "loop"
    /\ proc'[p].i = proc[p].i + 1

\* process p is in an iteration of the loop in this step, and ends it or fails in it
InIteration(p) ==
    /\ proc[p].pc = "loop"
    /\ ~LoopDone(proc[p])
    /\ Iterates(p) \/ proc'[p].pc # "loop"

SameVersions(row, other) ==
    /\ other.present = row.present
    /\ other.current_version = row.current_version
    /\ other.current_version_last_updated = row.current_version_last_updated
    /\ other.latest_version = row.latest_version
    /\ other.latest_version_last_updated = row.latest_version_last_updated

C14_CaseCNoChange ==
    [][\A p \in Procs : InIteration(p) =>
          LET program == proc[p].programs[proc[p].i]
              row == store[program.name]
          IN (/\ row.present
              /\ published[program.name] = row.latest_version
              /\ published[program.name] = row.current_version) =>
                 /\ store' = store
                 /\ Iterates(p) => proc'[p].updates = proc[p].updates]_vars

\* a check has passed a program without an update whose notification_sent is set
C14_Witness ==
    \E p \in Procs :
       /\ proc[p].pc = "loop"
       /\ proc[p].clean
       /\ proc[p].i > 1
       /\ proc[p].updates = <<>>
       /\ LET program == proc[p].programs[1]
          IN /\ proc[p].fetched[1] = program.latest_version
             /\ proc[p].fetched[1] = program.current_version
             /\ store[program.name].notification_sent

\* C15: programs are processed in the order of their names, and when a check returns,
\* its result holds exactly the programs whose fetched version differed from the
\* latest_version or from the current_version they were read with, each once, in the order
\* of their names.
C15_ResultIsCaseAorB ==
    [][\A p \in Procs :
          /\ Iterates(p) =>
                /\ Len(proc[p].fetched) = proc[p].i - 1
                /\ Len(proc'[p].fetched) = proc[p].i
                /\ \A k \in 1..(proc[p].i - 1) :
                      proc[p].programs[k].name < proc[p].programs[proc[p].i].name
          /\ Completes(p) =>
                LET programs == proc[p].programs
                    updates == proc'[p].updates
                IN /\ \A j, k \in 1..Len(updates) : j < k => updates[j].name < updates[k].name
                   /\ NamesOf(updates) =
                        {programs[k].name : k \in
                            {j \in 1..Len(programs) :
                                \/ proc[p].fetched[j] # programs[j].latest_version
                                \/ proc[p].fetched[j] # programs[j].current_version}}]_vars

\* a pass has returned both programs, one with a new version and one with an update
\* that was already recorded, while the store held both
C15_Witness ==
    /\ proc["sched"].pc = "notify"
    /\ Len(proc["sched"].updates) = 2
    /\ \E k \in 1..2 : proc["sched"].updates[k].latest_version
                         = proc["sched"].programs[k].latest_version
    /\ \E k \in 1..2 : proc["sched"].updates[k].latest_version
                         # proc["sched"].programs[k].latest_version


\* C16 as stated: once a message the channel accepted has named a program, and for as
\* long as its stored latest_version stays the same, a Timed pass that fetches that
\* version while the update is not applied returns the program again, and no further
\* message names it.
C16_NotifiedOnce ==
    [][/\ Completes("sched") =>
             \A k \in 1..Len(proc["sched"].programs) :
                LET program == proc["sched"].programs[k]
                IN (/\ program.name \in delivered
                    /\ proc["sched"].fetched[k] = program.latest_version
                    /\ program.latest_version # program.current_version) =>
                       program.name \in NamesOf(proc'["sched"].updates)
       /\ (Notifies /\ Requested) =>
             NamesOf(channel'[Len(channel')].message) \cap delivered = {}]_vars


\* add-program stores the row of this name in this step
Registers(name) == ~store[name].present /\ store'[name].present

\* add-program ends in this step because the provider lookup of Program::init failed
RegistrationFails ==
    /\ proc["cli"].pc = "idle"
    /\ proc'["cli"].pc = "idle"
    /\ proc'["sched"].pc = proc["sched"].pc
    /\ now' = now + 1
    /\ proc'["cli"].error = "provider"

\* C17: a program stored by registration has current_version = latest_version = the
\* version the provider has at that time, both dated with the time of registration, and
\* no other row changes; when the lookup fails, nothing is stored.
C17_RegistrationVersions ==
    [][/\ \A name \in Names : Registers(name) =>
             /\ store'[name].current_version = published[name]
             /\ store'[name].latest_version = published[name]
             /\ store'[name].current_version_last_updated = now'
             /\ store'[name].latest_version_last_updated = now'
             /\ \A n \in Names \ {name} : store'[n] = store[n]
       /\ RegistrationFails => store' = store]_vars

\* a program was registered again while the provider had version 2 for it
C17_Witness ==
    /\ proc["cli"].pc = "idle"
    /\ proc["cli"].outcome = "ok"
    /\ proc["cli"].check_args = None
    /\ update_history = <<>>
    /\ \E name \in Names :
         /\ store[name].present
         /\ store[name].current_version = 2
         /\ store[name].latest_version = 2
         /\ store[name].current_version_last_updated = now
         /\ store[name].latest_version_last_updated = now

\* C18 as stated: a program stored by registration has notification_sent = true.
C18_RegisteredAsNotified ==
    [][\A name \in Names : Registers(name) => store'[name].notification_sent]_vars

\* C18, amended: a program stored by registration has notification_sent = false and
\* notification_sent_on = None; as its current_version is its latest_version, a check
\* that fetches that version does not return it, so that no message names it before a
\* version change.
C18_RegisteredNotNotified ==
    [][/\ \A name \in Names : Registers(name) =>
             /\ ~store'[name].notification_sent
             /\ store'[name].notification_sent_on = None
             /\ name \notin Pending(store')
       /\ \A p \in Procs : Completes(p) =>
             \A k \in 1..Len(proc[p].programs) :
                LET program == proc[p].programs[k]
                IN (/\ program.current_version = program.latest_version
                    /\ program.current_version_last_updated = program.latest_version_last_updated
                    /\ proc[p].fetched[k] = program.latest_version) =>
                       program.name \notin NamesOf(proc'[p].updates)
       /\ (Notifies /\ Requested) =>
             NamesOf(channel'[Len(channel')].message) \subseteq NamesOf(proc["sched"].updates)]_vars

\* a program that a message had named was removed and registered again
C18_Witness ==
    /\ proc["cli"].pc = "idle"
    /\ proc["cli"].outcome = "ok"
    /\ proc["cli"].check_args = None
    /\ \E name \in Names :
         /\ store[name].present
         /\ store[name].current_version_last_updated = now
         /\ store[name].latest_version_last_updated = now
         /\ ~store[name].notification_sent
         /\ \E k \in 1..Len(channel) :
               channel[k].kind = "update" /\ name \in NamesOf(channel[k].message)


\* the check that completed right before the scheduler's pass, with nothing in between,
\* was a manual one with --allow-notification
AfterAllowingCheck ==
    /\ proc["sched"].after.calm
    /\ proc["sched"].after.type = "manual"
    /\ proc["sched"].after.check_args # None
    /\ proc["sched"].after.check_args[1].allow_notification

C20_SetCurrentVersion ==
    [][(Completes("cli") /\ SetsCurrent(proc["cli"].check_args)) =>
          \A k \in 1..Len(proc["cli"].programs) :
             proc["cli"].programs[k].name \in NamesOf(proc'["cli"].updates) =>
                store'[proc["cli"].programs[k].name].current_version = proc["cli"].fetched[k]]_vars


\* the programs of a result that the store has as not yet notified
Eligible(s, programs) ==
    {programs[k].name : k \in {j \in 1..Len(programs) :
        s[programs[j].name].present /\ ~s[programs[j].name].notification_sent}}

\* C21: a Timed pass makes at most one update request, in its one call of
\* send_update_notification, and the message of the request names every program of the
\* result whose notification_sent is false; a pass with an empty result does not call
\* send_update_notification, and a result whose programs are all notified makes no request.
C21_OneRequestPerPass ==
    [][/\ (channel' # channel /\ channel'[Len(channel')].kind = "update") =>
             /\ Notifies
             /\ Requested
             /\ SubSeq(channel', 1, Len(channel)) = channel
       /\ Notifies =>
             /\ proc'["sched"].pc \in {"sleep", "failed"}
             /\ Requested =>
                   /\ Eligible(store, proc["sched"].updates) # {}
                   /\ NamesOf(channel'[Len(channel')].message)
                        = Eligible(store, proc["sched"].updates)
                   /\ Len(channel'[Len(channel')].message)
                        = Cardinality(Eligible(store, proc["sched"].updates))
             /\ Eligible(store, proc["sched"].updates) = {} => channel' = channel
       /\ (Completes("sched") /\ proc'["sched"].updates = <<>>) =>
             /\ proc'["sched"].pc = "sleep"
             /\ channel' = channel]_vars

\* one message has carried both programs of a result
C21_Witness ==
    /\ proc["sched"].pc = "sleep"
    /\ Len(proc["sched"].included) = 2
    /\ Len(channel) = 1
    /\ Len(channel[1].message) = 2


\* a program of the scheduler's result has no row, hence no NotificationInfo
MissingInfo ==
    \E k \in 1..Len(proc["sched"].updates) :
        get_program(store, proc["sched"].updates[k].name) = None

\* C22: when a program passed to send_update_notification has no NotificationInfo in the
\* store (it was removed after the check), the call fails with an error, makes no
\* request to the channel and changes no row of the store.
C22_MissingInfoIsError ==
    [][(Notifies /\ MissingInfo) =>
          /\ proc'["sched"].pc = "failed"
          /\ proc'["sched"].outcome = "err"
          /\ channel' = channel
          /\ store' = store
          /\ delivered' = delivered]_vars

\* a program was removed between check and notification, and the call has failed
\* with the other program of the result still unflagged
C22_Witness ==
    /\ proc["sched"].pc = "failed"
    /\ proc["sched"].outcome = "err"
    /\ faults = 0
    /\ channel = <<>>
    /\ Len(proc["sched"].updates) = 2
    /\ ~store[1].present
    /\ store[2].present
    /\ ~store[2].notification_sent


\* the Err arm of the scheduler loop runs in this step
NotifiesError == proc["sched"].pc = "failed" /\ proc'["sched"].pc # "failed"

\* C23: whatever becomes of the error notification that the scheduler loop sends after a
\* failed pass, the loop does not terminate and no store state changes: the step
\* appends the one error message and leaves the loop asleep with its timer armed, from
\* where it wakes up for the next pass.
C23_ErrorNotificationFailureLogged ==
    [][NotifiesError =>
          /\ proc'["sched"].pc = "sleep"
          /\ Alive("sched")'
          /\ store' = store
          /\ check_history' = check_history
          /\ update_history' = update_history
          /\ published' = published
          /\ channel' = Append(channel, [kind |-> "error", message |-> <<>>])]_vars

\* the error notification could not be sent, and the timer has fired for the next pass
C23_Witness ==
    /\ proc["sched"].pc = "start"
    /\ proc["sched"].error_response = "error"
    /\ channel # <<>>
    /\ channel[Len(channel)].kind = "error"


\* the scheduler's pass makes its request in this step and the channel does not accept it
DispatchFails ==
    /\ Notifies
    /\ Requested
    /\ proc'["sched"].response \in {"rejected", "error"}

\* C24 as stated: a notification dispatch failure in a Timed pass takes back nothing of
\* the pass (its check-history entry and the latest_version it wrote remain) and
\* leaves every program of the failed message unnotified (notification_sent false, no
\* notification_sent_on), so that the next pass offers it again.
C24_DispatchFailureIsolated ==
    [][DispatchFails =>
          /\ check_history' = check_history
          /\ check_history # <<>>
          /\ check_history[Len(check_history)].type = "timed"
          /\ check_history[Len(check_history)].programs
               = SeqOfSet(NamesOf(proc["sched"].updates))
          /\ \A k \in 1..Len(proc'["sched"].included) :
               LET program == proc'["sched"].included[k]
                   row == store'[program.name]
               IN /\ row.present
                  /\ row.latest_version = program.latest_version
                  /\ row.latest_version = store[program.name].latest_version
                  /\ ~row.notification_sent
                  /\ row.notification_sent_on = None
                  /\ program.name \in Eligible(store', proc["sched"].updates)]_vars


\* the values a timestamp column can hold
Times == 0..MaxTime

\* the version fields of every program, as get_program reads them
AllPrograms(s) == [n \in Names |-> get_program(s, n)]

\* the notification info of every program but `name`
OtherInfo(s, name) == [n \in Names \ {name} |-> get_notification_info(s, n)]

\* C25: set_notification_sent(name, v) and set_notification_sent_on(name, t) change only
\* the flag, respectively the timestamp, of the named program: get_notification_info of
\* that program then returns the written value (None after writing None) next to the
\* untouched other field, the notification info of every other program and all version
\* fields are unchanged, and a name without a row changes nothing.
C25_NotificationSettersFrame ==
    \A name \in Names :
       /\ \A sent \in BOOLEAN :
            LET written == set_notification_sent(store, name, sent)
            IN /\ store[name].present =>
                    get_notification_info(written, name)
                      = Some([sent |-> sent, sent_on |-> store[name].notification_sent_on])
               /\ ~store[name].present => written = store
               /\ OtherInfo(written, name) = OtherInfo(store, name)
               /\ AllPrograms(written) = AllPrograms(store)
       /\ \A sent_on \in {None} \cup {Some(t) : t \in Times} :
            LET written == set_notification_sent_on(store, name, sent_on)
            IN /\ store[name].present =>
                    get_notification_info(written, name)
                      = Some([sent |-> store[name].notification_sent, sent_on |-> sent_on])
               /\ ~store[name].present => written = store
               /\ OtherInfo(written, name) = OtherInfo(store, name)
               /\ AllPrograms(written) = AllPrograms(store)

\* the scheduler has just marked program 1 with both setters; the notification info of
\* program 2 is as it was
C25_Witness ==
    /\ proc["sched"].pc = "sleep"
    /\ NamesOf(proc["sched"].included) = {1}
    /\ get_notification_info(store, 1) = Some([sent |-> TRUE, sent_on |-> Some(now)])
    /\ get_notification_info(store, 2) = Some([sent |-> FALSE, sent_on |-> None])


\* the row of a program without its latest-version columns
BesideLatest(row) ==
    [present |-> row.present,
     current_version |-> row.current_version,
     current_version_last_updated |-> row.current_version_last_updated,
     notification_sent |-> row.notification_sent,
     notification_sent_on |-> row.notification_sent_on]

\* the row of a program without its current-version columns
BesideCurrent(row) ==
    [present |-> row.present,
     latest_version |-> row.latest_version,
     latest_version_last_updated |-> row.latest_version_last_updated,
     notification_sent |-> row.notification_sent,
     notification_sent_on |-> row.notification_sent_on]

\* C26: update_latest_version(name, v, t) changes only latest_version and
\* latest_version_last_updated of the named program, and update_current_version(name, v, t)
\* only current_version and current_version_last_updated; the written values read back,
\* every other field of that program and every other program are unchanged, and a name
\* without a row changes nothing.
C26_VersionSettersFrame ==
    \A name \in Names, version \in Versions, t \in Times :
       LET latest == update_latest_version(store, name, version, t)
           current == update_current_version(store, name, version, t)
       IN /\ store[name].present =>
               /\ get_program(latest, name)[1].latest_version = version
               /\ get_program(latest, name)[1].latest_version_last_updated = t
               /\ get_program(current, name)[1].current_version = version
               /\ get_program(current, name)[1].current_version_last_updated = t
          /\ ~store[name].present => latest = store /\ current = store
          /\ BesideLatest(latest[name]) = BesideLatest(store[name])
          /\ BesideCurrent(current[name]) = BesideCurrent(store[name])
          /\ \A other \in Names \ {name} :
               latest[other] = store[other] /\ current[other] = store[other]

\* a check has written a new latest version for program 2 at time `now`: the version
\* in use of program 2 and the row of program 1 are as they were registered
C26_Witness ==
    /\ \E p \in Procs : proc[p].pc = "loop" /\ proc[p].i = 3
    /\ store[2].latest_version = 2
    /\ store[2].latest_version_last_updated = now
    /\ store[2].current_version = 1
    /\ store[2].current_version_last_updated = 0
    /\ get_program(store, 1) = Some(ProgramInit(1, 1, 0))
    /\ get_notification_info(store, 1) = Some([sent |-> FALSE, sent_on |-> None])


\* the entries of a sequence
Entries(rows) == {rows[k] : k \in 1..Len(rows)}

PassStarts == proc["sched"].pc = "start" /\ proc'["sched"].pc # "start"

C29_LoopRunsForever ==
    /\ Running("sched") ~> (proc["sched"].pc = "sleep")
    /\ (proc["sched"].pc = "sleep") ~> (proc["sched"].pc = "start")
    /\ (proc["sched"].pc = "start" /\ now < MaxTime) ~> Running("sched")


\* C30: the check-history entry written by a completed pass records the mode of the
\* pass (manual or timed), the time, an updates_available count equal to the size of
\* the result of the pass, and the names of exactly the programs of that result, in
\* name order; a pass with no updates records count 0 and an empty list of names.
C30_HistoryEntryContents ==
    [][\A p \in Procs :
          Completes(p) =>
             LET entry == check_history'[Len(check_history')]
                 result == proc[p].updates
             IN /\ proc'[p].updates = result
                /\ entry.type = proc[p].type
                /\ entry.type = IF p = "sched" THEN "timed" ELSE "manual"
                /\ entry.date = now
                /\ entry.updates_available = Len(result)
                /\ Len(entry.programs) = Len(result)
                /\ {entry.programs[k] : k \in 1..Len(entry.programs)} = NamesOf(result)
                /\ \A i \in 1..Len(entry.programs), j \in 1..Len(entry.programs) :
                      i < j => entry.programs[i] < entry.programs[j]
                /\ result = <<>> =>
                      entry.updates_available = 0 /\ entry.programs = <<>>]_vars

\* a manual check has recorded both programs, in name order, and a timed pass none
C30_Witness ==
    /\ \E k \in 1..Len(check_history) :
          /\ check_history[k].type = "manual"
          /\ check_history[k].updates_available = 2
          /\ check_history[k].programs = <<1, 2>>
    /\ \E k \in 1..Len(check_history) :
          /\ check_history[k].type = "timed"
          /\ check_history[k].updates_available = 0
          /\ check_history[k].programs = <<>>


\* the row of program n stays and its current_version changes in this step
CurrentChanges(n) ==
    /\ store[n].present /\ store'[n].present
    /\ store'[n].current_version # store[n].current_version

\* the row of program n stays and its notification_sent becomes true in this step
FlagRises(n) ==
    /\ store[n].present /\ store'[n].present
    /\ ~store[n].notification_sent /\ store'[n].notification_sent

\* the step belongs to a command: the scheduler loop stays where it is
CommandStep == proc'["sched"].pc = proc["sched"].pc /\ proc'["sched"].i = proc["sched"].i

\* C31 as stated: a Timed pass never changes a current_version and its engine never sets
\* notification_sent: current_version changes only in a manual check with
\* set_current_version or in the update action, and in scheduled operation
\* notification_sent becomes true only through a dispatch that succeeded.
C31_TimedPassFrame ==
    [][\A n \in Names :
          /\ CurrentChanges(n) =>
                /\ CommandStep
                /\ \/ proc["cli"].pc = "loop" /\ SetsCurrent(proc["cli"].check_args)
                   \/ proc["cli"].pc = "idle" /\ Len(update_history') >= Len(update_history)
          /\ FlagRises(n) =>
                \/ /\ CommandStep
                   /\ proc["cli"].pc = "loop"
                   /\ Suppresses(proc["cli"].type, proc["cli"].check_args)
                \/ /\ Notifies
                   /\ Requested
                   /\ proc'["sched"].response = "accepted"]_vars


\* C32 as stated: every program of the result that check_for_updates returns carries the
\* fields as they are stored at the end of the pass: its current_version and its
\* latest_version are those of its row, also when set_current_version promoted the
\* current_version during the pass.
C32_ResultCarriesStoredVersions ==
    [][\A p \in Procs :
          Completes(p) =>
             \A k \in 1..Len(proc'[p].updates) :
                LET program == proc'[p].updates[k]
                    row == store'[program.name]
                IN /\ row.present
                   /\ program.latest_version = row.latest_version
                   /\ program.current_version = row.current_version]_vars


\* no pass and no dispatch is in progress
Quiet == ~Running("sched") /\ proc["cli"].pc = "idle"

\* C33: whenever no pass or dispatch is in progress and no write to the store has failed,
\* every program has notification_sent_on set only if its notification_sent is true,
\* and a program with notification_sent true and no notification_sent_on (one that a
\* manual check suppressed) has not been notified of its latest_version.
C33_NotificationInfoConsistent ==
    (Quiet /\ ~write_failed) =>
       \A n \in Names :
          store[n].present =>
             /\ store[n].notification_sent_on # None => store[n].notification_sent
             /\ (store[n].notification_sent /\ store[n].notification_sent_on = None) =>
                   n \notin delivered

\* at rest after a manual check suppressed program 1 and a dispatch for program 2 was
\* accepted: program 1 has the flag without a time, program 2 has both
C33_Witness ==
    /\ Quiet
    /\ ~write_failed
    /\ store[1].present
    /\ store[1].notification_sent
    /\ store[1].notification_sent_on = None
    /\ 1 \notin delivered
    /\ store[2].present
    /\ store[2].notification_sent
    /\ store[2].notification_sent_on # None
    /\ 2 \in delivered


\* the programs named in the message requested in this step
Named == NamesOf(channel'[Len(channel')].message)

\* C34 as stated: also when a manual check interleaves with a Timed pass, and with no
\* failure of the provider, the store or the channel, a message of the scheduler names
\* no program whose latest_version a manual check without allow_notification has
\* marked as notified, and no program whose latest_version an accepted message has
\* named before.
C34_InterleavedSuppression ==
    [][(Notifies /\ Requested /\ faults' = 0) =>
          /\ Named \cap suppressed = {}
          /\ Named \cap delivered = {}]_vars


\* C35 as stated: every program of the result of a completed check has an update pending
\* in the store at the end of the pass, its stored latest_version differing from its
\* stored current_version, whatever the provider published and whatever the options.
C35_ResultIsPending ==
    [][\A p \in Procs :
          Completes(p) => NamesOf(proc'[p].updates) \subseteq Pending(store')]_vars


\* program n has an update pending that no message has been flagged for
AwaitsNotification(n) == n \in Pending(store) /\ ~store[n].notification_sent

\* C36 as stated: with the scheduler running on its own and the provider, the store and
\* the channel failing only finitely often, every program with an update pending and
\* notification_sent false is eventually named in a message the channel accepted and
\* has notification_sent true; unless the update stops being pending, the task has
\* panicked, or the clock of the model runs out with the program still waiting.
C36_PendingEventuallyNotified ==
    \A n \in Names :
       AwaitsNotification(n) ~>
          \/ n \in delivered /\ store[n].notification_sent
          \/ n \notin Pending(store)
          \/ proc["sched"].pc = "dead"
          \/ now = MaxTime /\ ~store[n].notification_sent

\* ------------------------------------------------------------- C37
\* C37: every change of a program's stored current_version after registration
\* is recorded by exactly one UpdateHistoryEntry of that program, whose
\* old_version is the value before the change and whose updated_to is the value
\* after it (a step in which a store operation fails is left aside).
C37_HistoryRecordsEveryChange ==
    [][\A n \in Names :
          (CurrentChanges(n) /\ faults' = faults) =>
             /\ Len(update_history') = Len(update_history) + 1
             /\ LET entry == update_history'[Len(update_history')]
                IN /\ entry.name = n
                   /\ entry.old_version = store[n].current_version
                   /\ entry.updated_to = store'[n].current_version]_vars

\* ------------------------------------------------------------- C38
\* process p is in a pass that reads program b, for which the provider is down
PassUnderOutage(p, b) ==
    /\ Running(p)
    /\ b \in outage
    /\ b \in NamesOf(proc[p].programs)

\* C38: while the provider lookup of one program fails on every pass, no step of a pass
\* changes the row of a program sorted after it or names such a program in a
\* notification, no pass completes or writes an UpdateCheckHistoryEntry, and when the
\* pass fails at that program the versions fetched for the programs sorted before it
\* are in the store.
C38_OutageStarvesLaterPrograms ==
    [][\A p \in Procs, b \in Names :
          PassUnderOutage(p, b) =>
             /\ \A n \in Names : n > b => store'[n] = store[n]
             /\ Requested => \A n \in Named : ~(n > b)
             /\ check_history' = check_history
             /\ ~Completes(p)
             /\ (ProviderFails(p) /\ proc[p].programs[proc[p].i].name = b) =>
                   \A k \in 1..(proc[p].i - 1) :
                      store'[proc[p].programs[k].name].latest_version = proc[p].fetched[k]]_vars

\* the provider is down for program 1; a second scheduled pass has failed at it while
\* version 2 of program 2 is published and its row still says 1
C38_Witness ==
    /\ outage = {1}
    /\ proc["sched"].pc = "sleep"
    /\ proc["sched"].error = "provider"
    /\ proc["sched"].waited
    /\ store[1].present /\ store[2].present
    /\ published[2] = 2
    /\ store[2].latest_version = 1
    /\ check_history = <<>>

\* ------------------------------------------------------------- C39
\* the update action runs for this name in this step
UpdateRuns(name) == Update /\ UpdateOf(name)

\* C39: the update action applied to a name that is not in the store, or to a program
\* whose current_version already equals latest_version, changes no program row and
\* appends no UpdateHistoryEntry.
C39_UpdateWithoutEffect ==
    [][\A name \in Names :
          (/\ UpdateRuns(name)
           /\ \/ get_program(store, name) = None
              \/ store[name].current_version = store[name].latest_version) =>
             /\ store' = store
             /\ update_history' = update_history]_vars

\* the update action was applied once, and later it was run again and found the
\* program up to date: the rows and the one entry are as the first run left them
C39_Witness ==
    /\ proc["cli"].outcome = "up_to_date"
    /\ Len(update_history) = 1
    /\ update_history[1].date < now
    /\ \A n \in Names : store[n].present =>
          /\ store[n].current_version = store[n].latest_version
          /\ store[n].current_version_last_updated <= update_history[1].date

====
